---------------------------- MODULE Spec2Model ----------------------------
(***************************************************************************)
(* A model of indexer.py: parse_post (the section markup parser and the    *)
(* excerpt derivation), generate_indexes (the newest-first sort and the    *)
(* two groupings) and main (the per-file loop and the two artifacts).      *)
(* Python strings are TLA+ strings; a character is a string of length 1.   *)
(***************************************************************************)
EXTENDS Integers, Sequences, FiniteSets, TLC

VARIABLES
    pc,            \* where the modelled call stands
    text,          \* parse_post: the content argument
    filename,      \* parse_post: the filename argument
    parsed,        \* parse_post: [status, post], "ok" or "ValueError"
    posts,         \* main / generate_indexes: the list of parsed posts
    chrono,        \* generate_indexes: the chrono list
    catalog,       \* generate_indexes: the catalog dict, in insertion order
    dir_exists,    \* main: posts_dir.exists()
    post_files,    \* main: the files posts_dir.glob('*.txt') found, [name, text]
    file_idx,      \* main: the position of the for loop over post_files
    reported,      \* main: the names of the files whose error was printed
    chrono_file,   \* main: chrono.json, [written, data]
    catalog_file   \* main: catalog.json, [written, data]

vars == <<pc, text, filename, parsed, posts, chrono, catalog, dir_exists,
          post_files, file_idx, reported, chrono_file, catalog_file>>

-----------------------------------------------------------------------------
(* Bounds of the model.                                                    *)

MaxSections == 4

MaxTok == 4

MaxPosts == 3

MaxFiles == 3

-----------------------------------------------------------------------------
(* Characters and the str methods parse_post uses.                         *)

Ch(s, i) == SubSeq(s, i, i)

UpperLetters == "ABCDEFGHIJKLMNOPQRSTUVWXYZ"

LowerLetters == "abcdefghijklmnopqrstuvwxyz"

Digits == "0123456789"

UpperSet ==
    {"A", "B", "C", "D", "E", "F", "G", "H", "I", "J", "K", "L", "M",
     "N", "O", "P", "Q", "R", "S", "T", "U", "V", "W", "X", "Y", "Z"}

LowerSet ==
    {"a", "b", "c", "d", "e", "f", "g", "h", "i", "j", "k", "l", "m",
     "n", "o", "p", "q", "r", "s", "t", "u", "v", "w", "x", "y", "z"}

DigitSet == {"0", "1", "2", "3", "4", "5", "6", "7", "8", "9"}

\* \s of the re module and the characters str.strip() removes
Space == {" ", "\t", "\n", "\r", "\f"}

IsSpace(c) == c \in Space

\* \w of the re module
WordChars == UpperSet \cup LowerSet \cup DigitSet \cup {"_"}

IsWord(c) == c \in WordChars

IsDigit(c) == c \in DigitSet

DigitVal(c) == (CHOOSE i \in 1..Len(Digits) : Ch(Digits, i) = c) - 1

LowerCh(c) ==
    IF c \in UpperSet
    THEN Ch(LowerLetters, CHOOSE i \in 1..Len(UpperLetters) : Ch(UpperLetters, i) = c)
    ELSE c

RECURSIVE Lower(_)
\* str.lower()
Lower(s) == IF s = "" THEN "" ELSE LowerCh(Head(s)) \o Lower(Tail(s))

\* the least position in p..Len(s) whose character is in S, or Len(s)+1
FirstIn(s, p, S) ==
    IF \E i \in p..Len(s) : Ch(s, i) \in S
    THEN CHOOSE i \in p..Len(s) : Ch(s, i) \in S /\ \A j \in p..(i - 1) : Ch(s, j) \notin S
    ELSE Len(s) + 1

\* the least position in p..Len(s) whose character is not in S, or Len(s)+1
FirstNotIn(s, p, S) ==
    IF \E i \in p..Len(s) : Ch(s, i) \notin S
    THEN CHOOSE i \in p..Len(s) : Ch(s, i) \notin S /\ \A j \in p..(i - 1) : Ch(s, j) \in S
    ELSE Len(s) + 1

\* str.strip()
Strip(s) ==
    LET a == FirstNotIn(s, 1, Space)
    IN  IF a > Len(s) THEN ""
        ELSE LET b == CHOOSE i \in a..Len(s) :
                          ~IsSpace(Ch(s, i)) /\ \A j \in (i + 1)..Len(s) : IsSpace(Ch(s, j))
             IN  SubSeq(s, a, b)

\* s[:n]
Slice(s, n) == SubSeq(s, 1, IF Len(s) < n THEN Len(s) ELSE n)

RECURSIVE SplitFrom(_, _, _)
\* the pieces of s from position p on, between the occurrences of the character sep
SplitFrom(s, p, sep) ==
    LET q == FirstIn(s, p, {sep})
    IN  IF q > Len(s) THEN <<SubSeq(s, p, Len(s))>>
        ELSE <<SubSeq(s, p, q - 1)>> \o SplitFrom(s, q + 1, sep)

\* content.split('\n')
Split(s) == SplitFrom(s, 1, "\n")

RECURSIVE Join(_)
\* '\n'.join(lines)
Join(lines) ==
    IF lines = <<>> THEN ""
    ELSE IF Len(lines) = 1 THEN lines[1]
    ELSE lines[1] \o "\n" \o Join(Tail(lines))

RECURSIVE UnescapeFrom(_, _)
\* line.replace(r'\[', '[') from position p on: every \[ from the left
UnescapeFrom(line, p) ==
    IF \E i \in p..(Len(line) - 1) : SubSeq(line, i, i + 1) = "\\["
    THEN LET e == CHOOSE i \in p..(Len(line) - 1) :
                      /\ SubSeq(line, i, i + 1) = "\\["
                      /\ \A j \in p..(i - 1) : SubSeq(line, j, j + 1) # "\\["
         IN  SubSeq(line, p, e - 1) \o "[" \o UnescapeFrom(line, e + 2)
    ELSE SubSeq(line, p, Len(line))

\* line.replace(r'\[', '[')
Unescape(line) == UnescapeFrom(line, 1)

-----------------------------------------------------------------------------
(* parse_post: the section loop.                                           *)

\* re.match(r'^(?<!\\)\[(\w+)\]$', line): the lookbehind holds at position 0,
\* and a line of split('\n') holds no newline for $ to stop before.
IsSectionHeader(line) ==
    /\ Len(line) >= 3
    /\ Ch(line, 1) = "["
    /\ Ch(line, Len(line)) = "]"
    /\ \A i \in 2..(Len(line) - 1) : IsWord(Ch(line, i))

\* section_match.group(1)
SectionName(line) == SubSeq(line, 2, Len(line) - 1)

\* the post dict before the loop
NewPost(fname) ==
    [path |-> "posts/" \o fname, title |-> "", thumbnail |-> "", content |-> "",
     date |-> "", category |-> ""]

\* post[key] = value
SetField(post, key, value) ==
    [k \in (DOMAIN post) \cup {key} |-> IF k = key THEN value ELSE post[k]]

\* if current_section and section_content: post[current_section.lower()] = ...
\* (current_section None is the empty string: a matched name is never empty)
SaveSection(post, current_section, section_content) ==
    IF current_section # "" /\ section_content # <<>>
    THEN SetField(post, Lower(current_section), Strip(Join(section_content)))
    ELSE post

RECURSIVE ParseLines(_, _, _, _, _)
\* the for loop over lines, from line i on, and the save of the last section
ParseLines(lines, i, post, current_section, section_content) ==
    IF i > Len(lines) THEN SaveSection(post, current_section, section_content)
    ELSE IF IsSectionHeader(lines[i])
         THEN ParseLines(lines, i + 1,
                         SaveSection(post, current_section, section_content),
                         SectionName(lines[i]), <<>>)
         ELSE IF current_section # ""
              THEN ParseLines(lines, i + 1, post, current_section,
                              Append(section_content, Unescape(lines[i])))
              ELSE ParseLines(lines, i + 1, post, current_section, section_content)

-----------------------------------------------------------------------------
(* parse_post: the excerpt.                                                *)

ExcerptLen == 150

\* where a match of <img\s+"[^"]*"> that starts at position i ends, or 0.
\* Each greedy run is followed by a character outside its class, so the
\* match is decided without backtracking.
ImgMatchEnd(s, i) ==
    IF i + 3 > Len(s) \/ SubSeq(s, i, i + 3) # "<img" THEN 0
    ELSE LET w == FirstNotIn(s, i + 4, Space)
         IN  IF w = i + 4 \/ w > Len(s) \/ Ch(s, w) # "\"" THEN 0
             ELSE LET q == FirstIn(s, w + 1, {"\""})
                  IN  IF q + 1 > Len(s) \/ Ch(s, q + 1) # ">" THEN 0 ELSE q + 1

\* where a match of <[^>]*> that starts at position i ends, or 0
TagMatchEnd(s, i) ==
    IF i > Len(s) \/ Ch(s, i) # "<" THEN 0
    ELSE LET g == FirstIn(s, i + 1, {">"})
         IN  IF g > Len(s) THEN 0 ELSE g

RECURSIVE StripImagesFrom(_, _)
\* re.sub(r'<img\s+"[^"]*">', '', s) from position p on: the leftmost
\* matches, none overlapping, in one pass
StripImagesFrom(s, p) ==
    IF \E i \in p..Len(s) : ImgMatchEnd(s, i) > 0
    THEN LET m == CHOOSE i \in p..Len(s) :
                      ImgMatchEnd(s, i) > 0 /\ \A j \in p..(i - 1) : ImgMatchEnd(s, j) = 0
         IN  SubSeq(s, p, m - 1) \o StripImagesFrom(s, ImgMatchEnd(s, m) + 1)
    ELSE SubSeq(s, p, Len(s))

\* re.sub(r'<img\s+"[^"]*">', '', s)
StripImages(s) == StripImagesFrom(s, 1)

RECURSIVE StripTagsFrom(_, _)
\* re.sub(r'<[^>]*>', '', s) from position p on
StripTagsFrom(s, p) ==
    IF \E i \in p..Len(s) : TagMatchEnd(s, i) > 0
    THEN LET m == CHOOSE i \in p..Len(s) :
                      TagMatchEnd(s, i) > 0 /\ \A j \in p..(i - 1) : TagMatchEnd(s, j) = 0
         IN  SubSeq(s, p, m - 1) \o StripTagsFrom(s, TagMatchEnd(s, m) + 1)
    ELSE SubSeq(s, p, Len(s))

\* re.sub(r'<[^>]*>', '', s)
StripTags(s) == StripTagsFrom(s, 1)

Ellipsis == "..."

\* the ellipsis goes by the length of the content, image tags included
ExcerptByContentLength(content) ==
    LET content_without_images == StripImages(content)
        excerpt == StripTags(Strip(Slice(content_without_images, ExcerptLen)))
    IN  IF Len(content) > ExcerptLen THEN excerpt \o Ellipsis ELSE excerpt

\* the first 150 characters are cut before the image tags are removed
ExcerptCutFirst(content) ==
    LET content_without_images == StripImages(Slice(content, ExcerptLen))
        excerpt == StripTags(Strip(content_without_images))
    IN  IF Len(StripImages(content)) > ExcerptLen THEN excerpt \o Ellipsis ELSE excerpt

\* the excerpt of post['content']
Excerpt(content) ==
    LET content_without_images == StripImages(content)
        excerpt == StripTags(Strip(Slice(content_without_images, ExcerptLen)))
    IN  IF Len(content_without_images) > ExcerptLen THEN excerpt \o Ellipsis ELSE excerpt

\* parse_post(content, filename): the post, or the ValueError it raises
parse_post(content, fname) ==
    LET sections == ParseLines(Split(content), 1, NewPost(fname), "", <<>>)
        post == SetField(sections, "excerpt", Excerpt(sections["content"]))
    IN  IF post["title"] = "" \/ post["date"] = "" \/ post["category"] = ""
        THEN [status |-> "ValueError", value |-> "Missing required fields in " \o fname]
        ELSE [status |-> "ok", value |-> post]

-----------------------------------------------------------------------------
(* generate_indexes: datetime.strptime(date, '%m/%d/%Y') as the sort key.  *)

\* %m: 1[0-2]|0[1-9]|[1-9]; the month, or 0 when the piece is no month
MonthOf(m) ==
    IF Len(m) = 1 /\ IsDigit(m) /\ m # "0" THEN DigitVal(m)
    ELSE IF Len(m) = 2 /\ Ch(m, 1) = "0" /\ IsDigit(Ch(m, 2)) /\ Ch(m, 2) # "0"
         THEN DigitVal(Ch(m, 2))
    ELSE IF Len(m) = 2 /\ Ch(m, 1) = "1" /\ Ch(m, 2) \in {"0", "1", "2"}
         THEN 10 + DigitVal(Ch(m, 2))
    ELSE 0

\* %d: 3[01]|[12]\d|0[1-9]|[1-9]| [1-9]; the day, or 0 when the piece is no day
DayOf(d) ==
    IF Len(d) = 1 /\ IsDigit(d) /\ d # "0" THEN DigitVal(d)
    ELSE IF Len(d) = 2 /\ Ch(d, 1) \in {"0", " "} /\ IsDigit(Ch(d, 2)) /\ Ch(d, 2) # "0"
         THEN DigitVal(Ch(d, 2))
    ELSE IF Len(d) = 2 /\ Ch(d, 1) \in {"1", "2"} /\ IsDigit(Ch(d, 2))
         THEN 10 * DigitVal(Ch(d, 1)) + DigitVal(Ch(d, 2))
    ELSE IF Len(d) = 2 /\ Ch(d, 1) = "3" /\ Ch(d, 2) \in {"0", "1"}
         THEN 30 + DigitVal(Ch(d, 2))
    ELSE 0

\* %Y: \d\d\d\d; the year, or 0 when the piece is no year (year 0 is none either)
YearOf(y) ==
    IF Len(y) = 4 /\ \A i \in 1..4 : IsDigit(Ch(y, i))
    THEN 1000 * DigitVal(Ch(y, 1)) + 100 * DigitVal(Ch(y, 2))
         + 10 * DigitVal(Ch(y, 3)) + DigitVal(Ch(y, 4))
    ELSE 0

IsLeap(y) == (y % 4 = 0 /\ y % 100 # 0) \/ y % 400 = 0

DaysInMonth(y, m) ==
    IF m = 2 THEN (IF IsLeap(y) THEN 29 ELSE 28)
    ELSE IF m \in {4, 6, 9, 11} THEN 30 ELSE 31

\* datetime.strptime(date, '%m/%d/%Y') as a number that orders as the datetime
\* does (year, then month, then day), or -1 for the ValueError it raises
strptime(date) ==
    LET pieces == SplitFrom(date, 1, "/")
    IN  IF Len(pieces) # 3 THEN -1
        ELSE LET m == MonthOf(pieces[1])
                 d == DayOf(pieces[2])
                 y == YearOf(pieces[3])
             IN  IF m = 0 \/ d = 0 \/ y = 0 \/ d > DaysInMonth(y, m) THEN -1
                 ELSE 10000 * y + 100 * m + d

-----------------------------------------------------------------------------
(* generate_indexes: the sort and the two groupings.                       *)

\* an item goes before the items of its own key too: the sort is not stable
InsertAtBeforeEqual(sorted, k) ==
    IF \E j \in 1..Len(sorted) : sorted[j].key <= k
    THEN CHOOSE j \in 1..Len(sorted) :
             sorted[j].key <= k /\ \A h \in 1..(j - 1) : sorted[h].key > k
    ELSE Len(sorted) + 1

\* where an item of key k goes into a list of [key, post] sorted newest
\* first: before the first item that is strictly older, so after the items
\* of its own key
InsertAt(sorted, k) ==
    IF \E j \in 1..Len(sorted) : sorted[j].key < k
    THEN CHOOSE j \in 1..Len(sorted) :
             sorted[j].key < k /\ \A h \in 1..(j - 1) : sorted[h].key >= k
    ELSE Len(sorted) + 1

RECURSIVE SortedFrom(_, _, _)
\* the keyed items from position i on, each put in its place
SortedFrom(keyed, i, sorted) ==
    IF i > Len(keyed) THEN sorted
    ELSE LET j == InsertAt(sorted, keyed[i].key)
         IN  SortedFrom(keyed, i + 1,
                        SubSeq(sorted, 1, j - 1) \o <<keyed[i]>>
                            \o SubSeq(sorted, j, Len(sorted)))

\* the sort without reverse=True: oldest first
sorted_posts_oldest_first(ps) ==
    LET keyed == [i \in 1..Len(ps) |-> [key |-> 0 - strptime(ps[i]["date"]), post |-> ps[i]]]
        sorted == SortedFrom(keyed, 1, <<>>)
    IN  [i \in 1..Len(sorted) |-> sorted[i].post]

\* sorted(posts, key=lambda p: strptime(p['date']), reverse=True): the key of
\* each post is computed once; the sort is stable, reverse=True included
sorted_posts(ps) ==
    LET keyed == [i \in 1..Len(ps) |-> [key |-> strptime(ps[i]["date"]), post |-> ps[i]]]
        sorted == SortedFrom(keyed, 1, <<>>)
    IN  [i \in 1..Len(sorted) |-> sorted[i].post]

\* the dict appended to chrono_map[date]
ChronoSummary(post) ==
    [path |-> post["path"], title |-> post["title"], excerpt |-> post["excerpt"],
     thumbnail |-> post["thumbnail"], category |-> post["category"]]

\* the dict appended to catalog[category]
CatalogSummary(post) ==
    [path |-> post["path"], title |-> post["title"], excerpt |-> post["excerpt"],
     thumbnail |-> post["thumbnail"], date |-> post["date"]]

\* chrono_map[date] = [summary] in place of the append: a date keeps its last post
ChronoAddReplacing(entries, post) ==
    IF \E k \in 1..Len(entries) : entries[k].date = post["date"]
    THEN [k \in 1..Len(entries) |->
             IF entries[k].date = post["date"]
             THEN [date |-> entries[k].date, posts |-> <<ChronoSummary(post)>>]
             ELSE entries[k]]
    ELSE Append(entries, [date |-> post["date"], posts |-> <<ChronoSummary(post)>>])

\* one pass of the chrono loop: chrono_map in insertion order, as the list
\* of {date, posts} it becomes
ChronoAdd(entries, post) ==
    IF \E k \in 1..Len(entries) : entries[k].date = post["date"]
    THEN [k \in 1..Len(entries) |->
             IF entries[k].date = post["date"]
             THEN [date |-> entries[k].date,
                   posts |-> Append(entries[k].posts, ChronoSummary(post))]
             ELSE entries[k]]
    ELSE Append(entries, [date |-> post["date"], posts |-> <<ChronoSummary(post)>>])

\* one pass of the catalog loop: the catalog dict in insertion order
CatalogAdd(entries, post) ==
    IF \E k \in 1..Len(entries) : entries[k].category = post["category"]
    THEN [k \in 1..Len(entries) |->
             IF entries[k].category = post["category"]
             THEN [category |-> entries[k].category,
                   posts |-> Append(entries[k].posts, CatalogSummary(post))]
             ELSE entries[k]]
    ELSE Append(entries, [category |-> post["category"], posts |-> <<CatalogSummary(post)>>])

RECURSIVE ChronoFrom(_, _, _)
ChronoFrom(ps, i, entries) ==
    IF i > Len(ps) THEN entries ELSE ChronoFrom(ps, i + 1, ChronoAdd(entries, ps[i]))

RECURSIVE CatalogFrom(_, _, _)
CatalogFrom(ps, i, entries) ==
    IF i > Len(ps) THEN entries ELSE CatalogFrom(ps, i + 1, CatalogAdd(entries, ps[i]))

\* generate_indexes(posts): (chrono, catalog), or the ValueError of strptime
generate_indexes(ps) ==
    IF \E i \in 1..Len(ps) : strptime(ps[i]["date"]) = -1
    THEN [status |-> "ValueError", chrono |-> <<>>, catalog |-> <<>>]
    ELSE LET sorted == sorted_posts(ps)
         IN  [status |-> "ok",
              chrono |-> ChronoFrom(sorted, 1, <<>>),
              catalog |-> CatalogFrom(sorted, 1, <<>>)]

-----------------------------------------------------------------------------
(* The inputs the specifications draw from.                                *)

\* the sequences over S of length at most n
SeqsUpTo(S, n) == UNION {[1..k -> S] : k \in 0..n}

RECURSIVE Concat(_)
Concat(strs) == IF strs = <<>> THEN "" ELSE Head(strs) \o Concat(Tail(strs))

RECURSIVE Flatten(_)
Flatten(seqs) == IF seqs = <<>> THEN <<>> ELSE Head(seqs) \o Flatten(Tail(seqs))

FileNames == {"a.txt", "b.txt"}

SectionNames == {"Title", "Date", "Category", "Content", "Path"}

\* a section's body lines: none, a blank one, an escaped bracket, a word
SectionBodies == {<<>>, <<" ">>, <<"\\[A]">>, <<"B">>}

SectionPool == [name : SectionNames, body : SectionBodies]

SectionLines(sec) == <<"[" \o sec.name \o "]">> \o sec.body

\* the text of a file holding these sections, one after the other
TextOf(secs) == Join(Flatten([k \in 1..Len(secs) |-> SectionLines(secs[k])]))

Pad == "aaaaaaaaaaaaaaaaaaaaaaaaaaaaaaaaaaaaaaaaaaaaaaaaaaaaaaaaaaaaaaaaaaaaaaaaaaaaaaaaaaaaaaaaaaaaaaaaaaaaaaaaaaaaaaaaaaaaaaaaaaaaaaaaaaaaaaaaaaaaaaaaa"

\* pieces of a Content section: a long run of text, short text, tags, an
\* image tag, and the two halves that make an image tag around another one
ContentTokens == {Pad, "a", " ", "...", "<b>", "<img ", "\"v\">", "<img \"u\">"}

RequiredSections == "[Title]\nT\n[Date]\n01/05/2024\n[Category]\nc\n"

DatePool == {"01/05/2024", "1/5/2024", "03/01/2024", "2024-01-05"}

\* posts of two files and two categories, some sharing a path or a category
PostPool ==
    {[path |-> "posts/" \o fc[1], title |-> "T", thumbnail |-> "", content |-> "x",
      date |-> d, category |-> fc[2], excerpt |-> "x"] :
        fc \in {<<"a.txt", "news">>, <<"b.txt", "news">>, <<"a.txt", "tech">>},
        d \in DatePool}

\* the files of a posts directory: two valid posts of different dates, a
\* post without a title, a post whose date is not month/day/year
FileTexts ==
    {"[Title]\nOne\n[Date]\n03/01/2024\n[Category]\nnews\n[Content]\nfirst",
     "[Title]\nTwo\n[Date]\n1/5/2024\n[Category]\ntech\n[Content]\nsecond",
     "[Date]\n01/05/2024\n[Category]\nnews\n[Content]\nuntitled",
     "[Title]\nBad\n[Date]\n2024-01-05\n[Category]\nnews\n[Content]\nbad date"}

\* glob('*.txt') yields distinct names
GlobNames == <<"a.txt", "b.txt", "c.txt", "d.txt", "e.txt">>

-----------------------------------------------------------------------------
(* The operations.                                                         *)

NotWritten == [written |-> FALSE, data |-> <<>>]

NoCall == [status |-> "none", value |-> ""]

\* post = parse_post(content, post_file.name), called on its own
ParsePost ==
    /\ pc = "parse_post"
    /\ parsed' = parse_post(text, filename)
    /\ pc' = "parsed"
    /\ UNCHANGED <<text, filename, posts, chrono, catalog, dir_exists, post_files,
                   file_idx, reported, chrono_file, catalog_file>>

\* chrono, catalog = generate_indexes(posts); its ValueError is caught
\* nowhere and ends main
GenerateIndexes ==
    /\ pc = "generate"
    /\ LET r == generate_indexes(posts)
       IN  IF r.status = "ok"
           THEN /\ chrono' = r.chrono
                /\ catalog' = r.catalog
                /\ pc' = "write_chrono"
           ELSE /\ pc' = "crashed"
                /\ UNCHANGED <<chrono, catalog>>
    /\ UNCHANGED <<text, filename, parsed, posts, dir_exists, post_files, file_idx,
                   reported, chrono_file, catalog_file>>

\* if not posts_dir.exists(): return
NoPostsDir ==
    /\ pc = "main"
    /\ ~dir_exists
    /\ pc' = "returned"
    /\ UNCHANGED <<text, filename, parsed, posts, chrono, catalog, dir_exists,
                   post_files, file_idx, reported, chrono_file, catalog_file>>

\* if not post_files: return
NoPostFiles ==
    /\ pc = "main"
    /\ dir_exists
    /\ post_files = <<>>
    /\ pc' = "returned"
    /\ UNCHANGED <<text, filename, parsed, posts, chrono, catalog, dir_exists,
                   post_files, file_idx, reported, chrono_file, catalog_file>>

\* posts = []; the for loop starts
StartParsing ==
    /\ pc = "main"
    /\ dir_exists
    /\ post_files # <<>>
    /\ posts' = <<>>
    /\ file_idx' = 1
    /\ pc' = "parse"
    /\ UNCHANGED <<text, filename, parsed, chrono, catalog, dir_exists, post_files,
                   reported, chrono_file, catalog_file>>

\* one turn of the for loop: the try block and its except Exception
ParseFile ==
    /\ pc = "parse"
    /\ file_idx <= Len(post_files)
    /\ LET f == post_files[file_idx]
           r == parse_post(f.text, f.name)
       IN  IF r.status = "ok"
           THEN posts' = Append(posts, r.value) /\ UNCHANGED reported
           ELSE reported' = Append(reported, f.name) /\ UNCHANGED posts
    /\ file_idx' = file_idx + 1
    /\ UNCHANGED <<pc, text, filename, parsed, chrono, catalog, dir_exists, post_files,
                   chrono_file, catalog_file>>

\* if not posts: return
NoPostsParsed ==
    /\ pc = "parse"
    /\ file_idx > Len(post_files)
    /\ posts = <<>>
    /\ pc' = "returned"
    /\ UNCHANGED <<text, filename, parsed, posts, chrono, catalog, dir_exists,
                   post_files, file_idx, reported, chrono_file, catalog_file>>

\* the loop is over and some post was parsed
StartGenerate ==
    /\ pc = "parse"
    /\ file_idx > Len(post_files)
    /\ posts # <<>>
    /\ pc' = "generate"
    /\ UNCHANGED <<text, filename, parsed, posts, chrono, catalog, dir_exists,
                   post_files, file_idx, reported, chrono_file, catalog_file>>

\* json.dump(chrono, f) into chrono.json
WriteChrono ==
    /\ pc = "write_chrono"
    /\ chrono_file' = [written |-> TRUE, data |-> chrono]
    /\ pc' = "write_catalog"
    /\ UNCHANGED <<text, filename, parsed, posts, chrono, catalog, dir_exists,
                   post_files, file_idx, reported, catalog_file>>

\* json.dump(catalog, f) into catalog.json
WriteCatalog ==
    /\ pc = "write_catalog"
    /\ catalog_file' = [written |-> TRUE, data |-> catalog]
    /\ pc' = "done"
    /\ UNCHANGED <<text, filename, parsed, posts, chrono, catalog, dir_exists,
                   post_files, file_idx, reported, chrono_file>>

-----------------------------------------------------------------------------
(* The specifications: main, and parse_post and generate_indexes called    *)
(* on their own over their inputs.                                         *)

\* main() over a posts directory
Init ==
    /\ pc = "main"
    /\ text = "" /\ filename = "" /\ parsed = NoCall
    /\ posts = <<>> /\ chrono = <<>> /\ catalog = <<>>
    /\ dir_exists \in BOOLEAN
    /\ \E texts \in SeqsUpTo(FileTexts, MaxFiles) :
           post_files = [k \in 1..Len(texts) |-> [name |-> GlobNames[k], text |-> texts[k]]]
    /\ (~dir_exists => post_files = <<>>)
    /\ file_idx = 1 /\ reported = <<>>
    /\ chrono_file = NotWritten /\ catalog_file = NotWritten

Next ==
    \/ NoPostsDir
    \/ NoPostFiles
    \/ StartParsing
    \/ ParseFile
    \/ NoPostsParsed
    \/ StartGenerate
    \/ GenerateIndexes
    \/ WriteChrono
    \/ WriteCatalog

Spec == Init /\ [][Next]_vars

\* parse_post over texts made of sections
InitParse ==
    /\ pc = "parse_post"
    /\ \E secs \in SeqsUpTo(SectionPool, MaxSections) : text = TextOf(secs)
    /\ filename \in FileNames
    /\ parsed = NoCall
    /\ posts = <<>> /\ chrono = <<>> /\ catalog = <<>>
    /\ dir_exists = TRUE /\ post_files = <<>> /\ file_idx = 1 /\ reported = <<>>
    /\ chrono_file = NotWritten /\ catalog_file = NotWritten

NextParse == ParsePost

SpecParse == InitParse /\ [][NextParse]_vars

\* parse_post over texts whose required sections are in place and whose
\* Content section is made of the content tokens
InitExcerpt ==
    /\ pc = "parse_post"
    /\ \E toks \in SeqsUpTo(ContentTokens, MaxTok) :
           text = RequiredSections \o "[Content]\n" \o Concat(toks)
    /\ filename = "a.txt"
    /\ parsed = NoCall
    /\ posts = <<>> /\ chrono = <<>> /\ catalog = <<>>
    /\ dir_exists = TRUE /\ post_files = <<>> /\ file_idx = 1 /\ reported = <<>>
    /\ chrono_file = NotWritten /\ catalog_file = NotWritten

SpecExcerpt == InitExcerpt /\ [][NextParse]_vars

\* generate_indexes over lists of posts
InitIndex ==
    /\ pc = "generate"
    /\ posts \in SeqsUpTo(PostPool, MaxPosts)
    /\ text = "" /\ filename = "" /\ parsed = NoCall
    /\ chrono = <<>> /\ catalog = <<>>
    /\ dir_exists = TRUE /\ post_files = <<>> /\ file_idx = 1 /\ reported = <<>>
    /\ chrono_file = NotWritten /\ catalog_file = NotWritten

NextIndex == GenerateIndexes

SpecIndex == InitIndex /\ [][NextIndex]_vars

-----------------------------------------------------------------------------
(* What the claims about parse_post speak of.                              *)

Parsed == pc = "parsed"

ParsedOk == pc = "parsed" /\ parsed.status = "ok"

RequiredFields == {"title", "date", "category"}

EndsWith(s, t) == Len(s) >= Len(t) /\ SubSeq(s, Len(s) - Len(t) + 1, Len(s)) = t

\* the header lines of the field, by position in the text's lines
HeadersOf(lines, field) ==
    {h \in 1..Len(lines) :
        IsSectionHeader(lines[h]) /\ Lower(SectionName(lines[h])) = field}

\* the last header line of the field, or 0 when the text has none
LastHeader(lines, field) ==
    IF HeadersOf(lines, field) = {} THEN 0
    ELSE CHOOSE h \in HeadersOf(lines, field) : \A g \in HeadersOf(lines, field) : g <= h

\* the body lines of the section whose header is line h: up to the next
\* header or the end of the input
BodyOf(lines, h) ==
    LET stop == IF \E g \in (h + 1)..Len(lines) : IsSectionHeader(lines[g])
                THEN CHOOSE g \in (h + 1)..Len(lines) :
                         /\ IsSectionHeader(lines[g])
                         /\ \A k \in (h + 1)..(g - 1) : ~IsSectionHeader(lines[k])
                ELSE Len(lines) + 1
    IN  [k \in 1..(stop - h - 1) |-> Unescape(lines[h + k])]

\* the value the markup gives a field when the last occurrence wins: the
\* trimmed body of the field's last section, empty when there is no section
LastSectionValue(txt, field) ==
    LET lines == Split(txt)
        h == LastHeader(lines, field)
    IN  IF h = 0 THEN "" ELSE Strip(Join(BodyOf(lines, h)))

\* the fields whose header the text repeats
RepeatedFields(txt) ==
    {Lower(SectionName(l)) : l \in {Split(txt)[h] : h \in
        {g \in 1..Len(Split(txt)) :
            /\ IsSectionHeader(Split(txt)[g])
            /\ Cardinality(HeadersOf(Split(txt), Lower(SectionName(Split(txt)[g])))) >= 2}}}

\* C1: parse_post fails with the validation error whenever the Title, Date
\* or Category section is missing or empty after trimming, and it succeeds
\* whenever the three are present and non-empty.
RequiredFieldsDecideOutcome ==
    Parsed =>
        (parsed.status = "ValueError"
            <=> \E f \in RequiredFields : LastSectionValue(text, f) = "")

\* C6: the path of the returned post is "posts/" followed by the filename,
\* whatever section headers the text contains.
PathIsPostsFilename ==
    ParsedOk => parsed.value["path"] = "posts/" \o filename

\* C9: when a section header is repeated the last occurrence wins: the field
\* holds the trimmed body of the last section of that name, also when that
\* section has no body lines.
LastOccurrenceWins ==
    ParsedOk =>
        \A f \in RepeatedFields(text) : parsed.value[f] = LastSectionValue(text, f)

-----------------------------------------------------------------------------
(* What the claims about the excerpt speak of.                             *)

\* the content of the parsed post with its image tags removed
ContentWithoutImages == StripImages(parsed.value["content"])

\* the excerpt without the ellipsis marker parse_post appended
ExcerptBody ==
    LET e == parsed.value["excerpt"]
    IN  IF Len(ContentWithoutImages) > ExcerptLen
        THEN SubSeq(e, 1, Len(e) - Len(Ellipsis))
        ELSE e

\* an image tag <img "URL"> occurs in s
HasImageTag(s) == \E i \in 1..Len(s) : ImgMatchEnd(s, i) > 0

\* an image tag of s begins within the first 150 characters and ends after them
ImageTagAcrossCut(s) ==
    \E i \in 1..ExcerptLen : ImgMatchEnd(s, i) > ExcerptLen

RECURSIVE RStrip(_)
RStrip(s) == IF s # "" /\ IsSpace(Ch(s, Len(s))) THEN RStrip(SubSeq(s, 1, Len(s) - 1)) ELSE s

\* the 150-character cut has split an image tag of the image-stripped content
\* and what the cut left of it, up to the cut, ends the excerpt
CutFragmentInExcerpt ==
    \E i \in 1..ExcerptLen :
        /\ ImgMatchEnd(ContentWithoutImages, i) > ExcerptLen
        /\ EndsWith(ExcerptBody, RStrip(SubSeq(ContentWithoutImages, i, ExcerptLen)))

\* C4 as stated: the excerpt is at most 153 characters long and it ends with
\* the ellipsis marker if and only if the image-stripped content is longer
\* than 150 characters.
ExcerptEllipsisIff ==
    ParsedOk =>
        /\ Len(parsed.value["excerpt"]) <= ExcerptLen + Len(Ellipsis)
        /\ (EndsWith(parsed.value["excerpt"], Ellipsis)
                <=> Len(ContentWithoutImages) > ExcerptLen)

\* C4 as amended: the excerpt is at most 153 characters long; it ends with
\* the ellipsis marker whenever the image-stripped content is longer than 150
\* characters; otherwise nothing is appended, the excerpt is no longer than
\* the image-stripped content (a content that itself ends in "..." keeps it).
ExcerptLengthAndEllipsis ==
    ParsedOk =>
        /\ Len(parsed.value["excerpt"]) <= ExcerptLen + Len(Ellipsis)
        /\ (Len(ContentWithoutImages) > ExcerptLen
                => EndsWith(parsed.value["excerpt"], Ellipsis))
        /\ (Len(ContentWithoutImages) <= ExcerptLen
                => Len(parsed.value["excerpt"]) <= Len(ContentWithoutImages))

\* C4's witness: a content made long only by its image tag; no ellipsis
ExcerptOfImageHeavyContent ==
    /\ ParsedOk
    /\ Len(parsed.value["content"]) > ExcerptLen
    /\ Len(ContentWithoutImages) <= ExcerptLen
    /\ ~EndsWith(parsed.value["excerpt"], Ellipsis)

\* C5 as stated: no image tag appears in the excerpt, neither whole nor as
\* a fragment left by the 150-character cut, tags that only come into being
\* once an inner image tag has been removed included.
NoImageTagInExcerpt ==
    ParsedOk => ~HasImageTag(parsed.value["excerpt"]) /\ ~CutFragmentInExcerpt

\* C5 as amended: no image tag appears whole in the excerpt, and the image
\* tags of the content leave nothing in it, cut or not: unless their removal
\* brings a new image tag into being, the excerpt is the excerpt of the
\* content written without them.
ImageTagsLeaveNoTrace ==
    ParsedOk =>
        /\ ~HasImageTag(parsed.value["excerpt"])
        /\ (~HasImageTag(ContentWithoutImages)
                => parsed.value["excerpt"] = Excerpt(ContentWithoutImages))

\* C5's witness: the 150-character cut falls inside an image tag of the content
ImageTagAtTheCut ==
    /\ ParsedOk
    /\ ImageTagAcrossCut(parsed.value["content"])
    /\ ~HasImageTag(ContentWithoutImages)
    /\ Len(ContentWithoutImages) < Len(parsed.value["content"])

\* C10: the excerpt before any ellipsis marker has no leading or trailing
\* whitespace (tags are stripped before the trim).
ExcerptIsTrimmed ==
    ParsedOk => ExcerptBody = Strip(ExcerptBody)

-----------------------------------------------------------------------------
(* What the claims about generate_indexes speak of.                        *)

\* generate_indexes has returned chrono and catalog
Generated == pc = "write_chrono"

Range(seq) == {seq[i] : i \in 1..Len(seq)}

Count(seq, x) == Cardinality({i \in 1..Len(seq) : seq[i] = x})

\* a post as the two indexes together carry it: all but its content
Indexed(post) ==
    [path |-> post["path"], title |-> post["title"], excerpt |-> post["excerpt"],
     thumbnail |-> post["thumbnail"], category |-> post["category"],
     date |-> post["date"]]

\* the posts of the chrono entries, each with the date of its entry
ChronoPosts ==
    Flatten([k \in 1..Len(chrono) |->
        [i \in 1..Len(chrono[k].posts) |->
            [path |-> chrono[k].posts[i].path, title |-> chrono[k].posts[i].title,
             excerpt |-> chrono[k].posts[i].excerpt,
             thumbnail |-> chrono[k].posts[i].thumbnail,
             category |-> chrono[k].posts[i].category, date |-> chrono[k].date]]])

\* the posts of the catalog categories, each with the category of its entry
CatalogPosts ==
    Flatten([k \in 1..Len(catalog) |->
        [i \in 1..Len(catalog[k].posts) |->
            [path |-> catalog[k].posts[i].path, title |-> catalog[k].posts[i].title,
             excerpt |-> catalog[k].posts[i].excerpt,
             thumbnail |-> catalog[k].posts[i].thumbnail,
             category |-> catalog[k].category, date |-> catalog[k].posts[i].date]]])

InputPosts == [i \in 1..Len(posts) |-> Indexed(posts[i])]

\* C2 as stated: the chrono list is strictly ordered by descending calendar
\* date, each entry's date strictly later than that of the entry after it.
ChronoStrictlyDescending ==
    Generated =>
        \A k \in 1..(Len(chrono) - 1) :
            strptime(chrono[k].date) > strptime(chrono[k + 1].date)

\* C2 as amended: the chrono list is ordered by descending calendar date,
\* each entry's date later than or the same as that of the entry after it,
\* and no two entries hold the same date string; two entries stand for the
\* same calendar date when their strings spell it differently.
ChronoDescendingByDateString ==
    Generated =>
        /\ \A k \in 1..(Len(chrono) - 1) :
               strptime(chrono[k].date) >= strptime(chrono[k + 1].date)
        /\ \A k, h \in 1..Len(chrono) : chrono[k].date = chrono[h].date => k = h

\* C2's witness: two entries for one calendar date, after an entry of a later date
TwoSpellingsOfADate ==
    /\ Generated
    /\ \E k \in 2..(Len(chrono) - 1) :
           /\ strptime(chrono[k].date) = strptime(chrono[k + 1].date)
           /\ strptime(chrono[1].date) > strptime(chrono[k].date)

\* C7: each input post appears exactly once among the posts of the chrono
\* entries and exactly once among the posts of the catalog categories; none
\* is created, dropped or duplicated.
EveryPostOnceInEachIndex ==
    Generated =>
        \A x \in Range(InputPosts) \cup Range(ChronoPosts) \cup Range(CatalogPosts) :
            /\ Count(ChronoPosts, x) = Count(InputPosts, x)
            /\ Count(CatalogPosts, x) = Count(InputPosts, x)

\* C7's witness: posts that share a date, a category and a path, among others
PostsSharingEverything ==
    /\ Generated
    /\ Len(chrono) >= 2
    /\ \E i, j \in 1..Len(posts) : i < j /\ posts[i] = posts[j]

\* C8: the posts that share a date appear within that date's chrono entry
\* in the relative order they had in the input.
SameDateKeepsInputOrder ==
    Generated =>
        \A k \in 1..Len(chrono) :
            LET same == SelectSeq(posts, LAMBDA p : p["date"] = chrono[k].date)
            IN  chrono[k].posts = [i \in 1..Len(same) |-> ChronoSummary(same[i])]

\* C8's witness: two different posts of one date, given before a newer post
SameDateBeforeNewer ==
    /\ Generated
    /\ \E i, j, n \in 1..Len(posts) :
           /\ i < j /\ j < n
           /\ posts[i]["date"] = posts[j]["date"]
           /\ posts[i] # posts[j]
           /\ strptime(posts[n]["date"]) > strptime(posts[i]["date"])

-----------------------------------------------------------------------------
(* What the claim about main speaks of.                                    *)

\* main has ended: it returned early, it crashed, or it wrote both files
Ended == pc \in {"returned", "crashed", "done"}

\* a file that passes validation: the required fields are there and the
\* date conforms to month/day/year
IsValidFile(f) ==
    /\ \A field \in RequiredFields : LastSectionValue(f.text, field) # ""
    /\ strptime(LastSectionValue(f.text, "date")) # -1

\* the paths of the posts an index holds
PathsOf(entries) ==
    UNION {{entries[k].posts[i].path : i \in 1..Len(entries[k].posts)} :
              k \in 1..Len(entries)}

\* C3: a file that fails validation (a required field is missing, or the
\* date does not conform to month/day/year) is skipped and reported, the
\* batch goes on: every valid file is indexed and both artifacts are written.
InvalidFilesAreSkipped ==
    Ended =>
        LET valid == {k \in 1..Len(post_files) : IsValidFile(post_files[k])}
        IN  /\ \A k \in 1..Len(post_files) :
                   k \notin valid => post_files[k].name \in Range(reported)
            /\ valid # {} =>
                   /\ chrono_file.written
                   /\ catalog_file.written
                   /\ PathsOf(chrono_file.data)
                          = {"posts/" \o post_files[k].name : k \in valid}
                   /\ PathsOf(catalog_file.data)
                          = {"posts/" \o post_files[k].name : k \in valid}

=============================================================================
